---- MODULE Spec2Model ----
(***************************************************************************)
(* Model of composer/callbacks/mlperf.py: the MLPerfCallback object, one   *)
(* instance per rank (process), the hooks the trainer calls on it, the     *)
(* results file the ranks share and the events handed to the mllogger.     *)
(*                                                                         *)
(* Event payloads other than the EVAL_ACCURACY value are not recorded.     *)
(* Metric values and the target live on a small integer grid.              *)
(***************************************************************************)
EXTENDS Integers, Sequences, FiniteSets, TLC

\* ---------------------------------------------------------------- bounds
MaxCalls == 2        \* hook calls per rank, hooks called in any order
MaxHooks == 6        \* hook calls per rank, hooks called in trainer order
MaxAccuracy == 2     \* metric values are 0 .. MaxAccuracy
MaxEvaluators == 2   \* len(state.evaluators) is 0 .. MaxEvaluators

\* Rank 0 is global rank zero, rank 1 stands for every other rank.
Ranks == {0, 1}

\* the metric grid; the target sits at 1, so that a metric can be below
\* it, at it and above it
Accuracies == 0 .. MaxAccuracy
Targets == {1}

\* ------------------------------------------------------ module constants
BENCHMARKS == {"resnet"}
DIVISIONS == {"open"}
STATUS == {"onprem", "cloud", "preview"}

\* argument values tried by the constructor: every supported one and one
\* unsupported one for each argument
BenchmarkArgs == BENCHMARKS \cup {"bert"}
DivisionArgs == DIVISIONS \cup {"closed"}
StatusArgs == {"onprem", "research"}

SubmissionKeys ==
    << "SUBMISSION_BENCHMARK", "SUBMISSION_DIVISION", "SUBMISSION_ORG",
       "SUBMISSION_PLATFORM", "SUBMISSION_STATUS" >>

RunParamKeys ==
    << "SEED", "GLOBAL_BATCH_SIZE", "GRADIENT_ACCUMULATION_STEPS",
       "TRAIN_SAMPLES", "EVAL_SAMPLES" >>

VARIABLES
    mlperf_available,  \* module flag set by the guarded import
    cb,                \* rank -> the fields of its MLPerfCallback
    attached,          \* rank -> its file handler is among mllogger's handlers
    pc,                \* rank -> position inside the hook it is running
    trainer,           \* rank -> the hook the trainer called last
    exc,               \* rank -> exception raised by the last call, or "none"
    calls,             \* rank -> number of hook calls made
    inEpoch,           \* rank -> between epoch_start and epoch_end
    inEval,            \* rank -> between eval_start and eval_end
    log,               \* every event handed to an mllogger, in order
    fs,                \* the shared filesystem under root_folder
    cacheCleared,      \* rank -> cache_clear_cmd was run
    artifacts,         \* rank -> names passed to logger.file_artifact
    validated          \* rank -> fit_start ran its validation checks

vars == << mlperf_available, cb, attached, pc, trainer, exc, calls, inEpoch,
           inEval, log, fs, cacheCleared, artifacts, validated >>

\* ------------------------------------------------------------ helpers

\* the fields of an object whose __init__ has assigned nothing
Unbuilt ==
    [ built |-> FALSE, mllogger |-> FALSE, system_desc |-> FALSE,
      filename |-> FALSE, cache_clear_cmd |-> FALSE, target |-> 0,
      file_handler |-> "None", success |-> FALSE ]

\* the rank check answering yes on every rank
rank_zero_Any(r) == r \in Ranks

rank_zero(r) == r = 0

\* single node: the local rank is the global rank
get_local_rank(r) == r

\* an event handed to the mllogger of rank r; it reaches the results file
\* when the file handler of the rank is attached at that moment
Event(r, key, value) ==
    [ rank |-> r, key |-> key, value |-> value, written |-> attached[r] ]

\* an event without a value
Plain(r, key) == Event(r, key, -1)

RECURSIVE Events(_, _)
Events(r, keys) ==
    IF keys = << >> THEN << >>
    ELSE << Plain(r, Head(keys)) >> \o Events(r, Tail(keys))

\* _log_dict: one mllogger.event per key, in dictionary order
_log_dict(r, keys) == Events(r, keys)

Raise(r, e) ==
    /\ exc' = [exc EXCEPT ![r] = e]
    /\ pc' = [pc EXCEPT ![r] = "idle"]

Return(r) ==
    /\ exc' = [exc EXCEPT ![r] = "none"]
    /\ pc' = [pc EXCEPT ![r] = "idle"]

\* a hook is entered: the object exists and the rank is not inside a hook
Enter(r) ==
    /\ cb[r].built
    /\ pc[r] = "idle"
    /\ calls' = [calls EXCEPT ![r] = @ + 1]

\* ------------------------------------------------------------ __init__

\* the checks without the one on the division
InitError_NoDivision(benchmark, division, status) ==
    IF ~mlperf_available THEN "ImportError"
    ELSE IF benchmark \notin BENCHMARKS THEN "ValueError"
    ELSE IF status \notin STATUS THEN "ValueError"
    ELSE "none"

\* the error __init__ raises for these arguments, "none" when it completes
InitError(benchmark, division, status) ==
    IF ~mlperf_available THEN "ImportError"
    ELSE IF benchmark \notin BENCHMARKS THEN "ValueError"
    ELSE IF division \notin DIVISIONS THEN "ValueError"
    ELSE IF status \notin STATUS THEN "ValueError"
    ELSE "none"

__init__(r, benchmark, division, status, target, cmd) ==
    /\ ~cb[r].built
    /\ pc[r] = "idle"
    /\ LET e == InitError(benchmark, division, status) IN
         IF e # "none"
         THEN /\ exc' = [exc EXCEPT ![r] = e]
              /\ UNCHANGED cb
         ELSE /\ exc' = [exc EXCEPT ![r] = "none"]
              /\ cb' = [cb EXCEPT ![r] =
                     [ built |-> TRUE, mllogger |-> TRUE, system_desc |-> TRUE,
                       filename |-> TRUE, cache_clear_cmd |-> cmd,
                       target |-> target, file_handler |-> "None",
                       success |-> FALSE ]]
    /\ UNCHANGED << mlperf_available, attached, pc, calls,
                    log, fs, cacheCleared, artifacts, validated >>

\* ---------------------------------------------------------------- init

\* first part of init, up to dist.barrier()
init(r) ==
    /\ Enter(r)
    /\ fs' = IF get_local_rank(r) = 0
             THEN [fs EXCEPT !.folders = TRUE, !.systems = TRUE]
             ELSE fs
    /\ pc' = [pc EXCEPT ![r] = "init_barrier"]
    /\ exc' = [exc EXCEPT ![r] = "none"]
    /\ UNCHANGED << mlperf_available, cb, attached, log,
                    cacheCleared, artifacts, validated >>

\* dist.barrier(): returns on every rank once every rank has called it
barrier ==
    /\ \A r \in Ranks : pc[r] \in {"init_barrier", "fit_barrier"}
    /\ pc' = [r \in Ranks |->
                IF pc[r] = "init_barrier" THEN "init_exists" ELSE "fit_run"]
    /\ UNCHANGED << mlperf_available, cb, attached, exc, calls, log, fs,
                    cacheCleared, artifacts, validated >>

\* init without the check for an existing results file
init_exists_NoCheck(r) ==
    /\ pc[r] = "init_exists"
    /\ pc' = [pc EXCEPT ![r] = "init_open"]
    /\ UNCHANGED << mlperf_available, cb, attached, exc, calls, log, fs,
                    cacheCleared, artifacts, validated >>

\* os.path.exists(self.filename)
init_exists(r) ==
    /\ pc[r] = "init_exists"
    /\ IF fs.results
       THEN Raise(r, "FileExistsError")
       ELSE /\ pc' = [pc EXCEPT ![r] = "init_open"]
            /\ UNCHANGED exc
    /\ UNCHANGED << mlperf_available, cb, attached, calls, log, fs,
                    cacheCleared, artifacts, validated >>

\* logging.FileHandler(self.filename) opens the file for appending, which
\* creates it; then the handler is added to the mllogger
init_open(r) ==
    /\ pc[r] = "init_open"
    /\ IF ~fs.folders
       THEN /\ Raise(r, "FileNotFoundError")
            /\ UNCHANGED << cb, attached, fs >>
       ELSE /\ fs' = [fs EXCEPT !.results = TRUE]
            /\ cb' = [cb EXCEPT ![r].file_handler = "open"]
            /\ attached' = [attached EXCEPT ![r] = TRUE]
            /\ pc' = [pc EXCEPT ![r] = "init_log"]
            /\ UNCHANGED exc
    /\ UNCHANGED << mlperf_available, calls, log,
                    cacheCleared, artifacts, validated >>

\* the events of init with the submission events ahead of INIT_START
InitEvents_SubmissionFirst(r) ==
    (IF cb[r].cache_clear_cmd THEN << Plain(r, "CACHE_CLEAR") >> ELSE << >>)
    \o (IF rank_zero(r) THEN _log_dict(r, SubmissionKeys) ELSE << >>)
    \o << Plain(r, "INIT_START") >>

\* the events init hands to the mllogger, in order
InitEvents(r) ==
    (IF cb[r].cache_clear_cmd THEN << Plain(r, "CACHE_CLEAR") >> ELSE << >>)
    \o << Plain(r, "INIT_START") >>
    \o (IF rank_zero(r) THEN _log_dict(r, SubmissionKeys) ELSE << >>)

\* the rest of init: cache clear, INIT_START, submission events, upload
init_log(r, cmdOk) ==
    /\ pc[r] = "init_log"
    /\ IF cb[r].cache_clear_cmd /\ ~cmdOk
       THEN /\ Raise(r, "CalledProcessError")
            /\ UNCHANGED << log, cacheCleared, artifacts >>
       ELSE /\ cacheCleared' =
                 [cacheCleared EXCEPT ![r] = @ \/ cb[r].cache_clear_cmd]
            /\ log' = log \o InitEvents(r)
            /\ artifacts' = IF rank_zero(r)
                            THEN [artifacts EXCEPT ![r] = @ \cup {"systems"}]
                            ELSE artifacts
            /\ Return(r)
    /\ UNCHANGED << mlperf_available, cb, attached, calls, fs, validated >>

\* ----------------------------------------------------------- fit_start

\* the `state` argument of fit_start, as far as the hook looks at it
FitStates ==
    [ train_is_dataloader : BOOLEAN, eval_is_dataloader : BOOLEAN,
      batch_size_none : BOOLEAN, evaluators : 0 .. MaxEvaluators,
      train_sized : BOOLEAN, eval_sized : BOOLEAN ]

\* the checks with the evaluator count checked after the datasets
FitStartError_EvaluatorsLast(s) ==
    IF ~s.train_is_dataloader
    THEN "TypeError: train dataloader must be a torch dataloader"
    ELSE IF s.evaluators = 0
    THEN "IndexError"
    ELSE IF ~s.eval_is_dataloader
    THEN "TypeError: eval dataset must be a torch dataloader."
    ELSE IF s.batch_size_none
    THEN "ValueError: Batch size is required to be set for dataloader."
    ELSE IF ~s.train_sized
    THEN "TypeError: Train dataset must have __len__ property"
    ELSE IF ~s.eval_sized
    THEN "TypeError: The eval dataset must have __len__ property"
    ELSE IF s.evaluators > 1
    THEN "ValueError: Only one evaluator is supported for the MLPerfCallback."
    ELSE "none"

\* the error the validation checks of fit_start raise, "none" when they pass
FitStartError(s) ==
    IF ~s.train_is_dataloader
    THEN "TypeError: train dataloader must be a torch dataloader"
    ELSE IF s.evaluators = 0
    THEN "IndexError"
    ELSE IF ~s.eval_is_dataloader
    THEN "TypeError: eval dataset must be a torch dataloader."
    ELSE IF s.batch_size_none
    THEN "ValueError: Batch size is required to be set for dataloader."
    ELSE IF s.evaluators > 1
    THEN "ValueError: Only one evaluator is supported for the MLPerfCallback."
    ELSE IF ~s.train_sized
    THEN "TypeError: Train dataset must have __len__ property"
    ELSE IF ~s.eval_sized
    THEN "TypeError: The eval dataset must have __len__ property"
    ELSE "none"

\* the events fit_start hands to the mllogger before the barrier
FitStartEvents(r) ==
    (IF rank_zero(r) THEN _log_dict(r, RunParamKeys) ELSE << >>)
    \o << Plain(r, "INIT_STOP") >>

\* first part of fit_start, up to dist.barrier()
fit_start(r, s) ==
    /\ Enter(r)
    /\ validated' = [validated EXCEPT ![r] = @ \/ rank_zero(r)]
    /\ IF rank_zero(r) /\ FitStartError(s) # "none"
       THEN /\ Raise(r, FitStartError(s))
            /\ UNCHANGED log
       ELSE /\ log' = log \o FitStartEvents(r)
            /\ pc' = [pc EXCEPT ![r] = "fit_barrier"]
            /\ exc' = [exc EXCEPT ![r] = "none"]
    /\ UNCHANGED << mlperf_available, cb, attached, fs,
                    cacheCleared, artifacts >>

\* the rest of fit_start, after the barrier
fit_run(r) ==
    /\ pc[r] = "fit_run"
    /\ log' = log \o (IF rank_zero(r)
                      THEN << Plain(r, "RUN_START") >> ELSE << >>)
    /\ Return(r)
    /\ UNCHANGED << mlperf_available, cb, attached, calls, fs, cacheCleared,
                    artifacts, validated >>

\* ------------------------------------------------- epoch and eval hooks

epoch_start(r) ==
    /\ Enter(r)
    /\ log' = log \o (IF rank_zero(r)
                      THEN Events(r, << "EPOCH_START", "BLOCK_START" >>)
                      ELSE << >>)
    /\ Return(r)
    /\ UNCHANGED << mlperf_available, cb, attached, fs, cacheCleared,
                    artifacts, validated >>

epoch_end(r) ==
    /\ Enter(r)
    /\ log' = log \o (IF rank_zero(r)
                      THEN << Plain(r, "EPOCH_STOP") >> ELSE << >>)
    /\ artifacts' = IF rank_zero(r)
                    THEN [artifacts EXCEPT ![r] = @ \cup {"results"}]
                    ELSE artifacts
    /\ Return(r)
    /\ UNCHANGED << mlperf_available, cb, attached, fs, cacheCleared,
                    validated >>

eval_start(r) ==
    /\ Enter(r)
    /\ log' = log \o (IF rank_zero(r)
                      THEN << Plain(r, "EVAL_START") >> ELSE << >>)
    /\ Return(r)
    /\ UNCHANGED << mlperf_available, cb, attached, fs, cacheCleared,
                    artifacts, validated >>

\* state.current_metrics as eval_end sees it: the label is missing, the
\* metric is missing under the label, or the metric has a value
Lookups == {"no_label", "no_metric", "found"}

\* the error _get_accuracy raises, "none" when it returns the metric
GetAccuracyError(lookup) ==
    IF lookup = "no_label" THEN "KeyError"
    ELSE IF lookup = "no_metric"
    THEN "ValueError: Accuracy must be a validation metric."
    ELSE "none"

\* the condition without the success flag
RunStopDue_EveryTime(accuracy, target, success) == accuracy > target

\* the condition with a non-strict comparison
RunStopDue_AtTarget(accuracy, target, success) ==
    accuracy >= target /\ ~success

\* the condition under which eval_end marks the end of the timed run
RunStopDue(accuracy, target, success) == accuracy > target /\ ~success

\* RUN_STOP handed to the mllogger after the file handler is removed
RunStopEvent_AfterRemove(r) == [Plain(r, "RUN_STOP") EXCEPT !.written = FALSE]

\* RUN_STOP is handed to the mllogger before the file handler is removed
RunStopEvent(r) == Plain(r, "RUN_STOP")

\* eval_end emitting EVAL_STOP before it looks the metric up
eval_end_LogFirst(r, lookup, m) ==
    /\ Enter(r)
    /\ IF ~rank_zero(r)
       THEN /\ Return(r)
            /\ UNCHANGED << log, cb, attached >>
       ELSE IF GetAccuracyError(lookup) # "none"
       THEN /\ Raise(r, GetAccuracyError(lookup))
            /\ log' = log \o << Plain(r, "EVAL_STOP") >>
            /\ UNCHANGED << cb, attached >>
       ELSE LET stop == RunStopDue(m, cb[r].target, cb[r].success) IN
            /\ log' = log
                 \o << Plain(r, "EVAL_STOP"),
                       Event(r, "EVAL_ACCURACY", m),
                       Plain(r, "BLOCK_STOP") >>
                 \o (IF stop THEN << RunStopEvent(r) >> ELSE << >>)
            /\ attached' = IF stop THEN [attached EXCEPT ![r] = FALSE]
                           ELSE attached
            /\ cb' = IF stop THEN [cb EXCEPT ![r].success = TRUE] ELSE cb
            /\ Return(r)
    /\ UNCHANGED << mlperf_available, fs, cacheCleared, artifacts, validated >>

eval_end(r, lookup, m) ==
    /\ Enter(r)
    /\ IF ~rank_zero(r)
       THEN /\ Return(r)
            /\ UNCHANGED << log, cb, attached >>
       ELSE IF GetAccuracyError(lookup) # "none"
       THEN /\ Raise(r, GetAccuracyError(lookup))
            /\ UNCHANGED << log, cb, attached >>
       ELSE LET stop == RunStopDue(m, cb[r].target, cb[r].success) IN
            /\ log' = log
                 \o << Plain(r, "EVAL_STOP"),
                       Event(r, "EVAL_ACCURACY", m),
                       Plain(r, "BLOCK_STOP") >>
                 \o (IF stop THEN << RunStopEvent(r) >> ELSE << >>)
            /\ attached' = IF stop THEN [attached EXCEPT ![r] = FALSE]
                           ELSE attached
            /\ cb' = IF stop THEN [cb EXCEPT ![r].success = TRUE] ELSE cb
            /\ Return(r)
    /\ UNCHANGED << mlperf_available, fs, cacheCleared, artifacts, validated >>

close(r) ==
    /\ Enter(r)
    /\ cb' = IF cb[r].file_handler # "None"
             THEN [cb EXCEPT ![r].file_handler = "closed"] ELSE cb
    /\ Return(r)
    /\ UNCHANGED << mlperf_available, attached, log, fs,
                    cacheCleared, artifacts, validated >>

Init ==
    /\ mlperf_available \in BOOLEAN
    /\ cb = [r \in Ranks |-> Unbuilt]
    /\ attached = [r \in Ranks |-> FALSE]
    /\ pc = [r \in Ranks |-> "idle"]
    /\ trainer = [r \in Ranks |-> "none"]
    /\ exc = [r \in Ranks |-> "none"]
    /\ calls = [r \in Ranks |-> 0]
    /\ inEpoch = [r \in Ranks |-> FALSE]
    /\ inEval = [r \in Ranks |-> FALSE]
    /\ log = << >>
    /\ \E pre \in BOOLEAN :
         fs = [ folders |-> pre, systems |-> FALSE, results |-> pre,
                preexisting |-> pre ]
    /\ cacheCleared = [r \in Ranks |-> FALSE]
    /\ artifacts = [r \in Ranks |-> {}]
    /\ validated = [r \in Ranks |-> FALSE]

\* ------------------------------------------- hooks called in any order

Construct(r) ==
    \E b \in BenchmarkArgs, d \in DivisionArgs, st \in StatusArgs,
       t \in Targets, cmd \in BOOLEAN :
        __init__(r, b, d, st, t, cmd)

\* the states fit_start is called with on rank r; a rank that is not
\* global rank zero never looks at the state, the valid ones stand for all
FitStatesOf(r) ==
    IF rank_zero(r) THEN FitStates
    ELSE {s \in FitStates : FitStartError(s) = "none"}

\* the metrics eval_end is called with on rank r, likewise
LookupsOf(r) == IF rank_zero(r) THEN Lookups ELSE {"found"}

AccuraciesOf(r) == IF rank_zero(r) THEN Accuracies ELSE {MaxAccuracy}

Idle == UNCHANGED << trainer, inEpoch, inEval >>

MayCall(r) == calls[r] < MaxCalls

CallConstruct(r) == Construct(r) /\ Idle

CallInit(r) == MayCall(r) /\ init(r) /\ Idle

\* fit_start looks at its state only through the validation checks: one
\* state for each outcome of the checks stands for all with that outcome
FitCases ==
    LET Outcomes == {FitStartError(s) : s \in FitStates} IN
    {CHOOSE s \in FitStates : FitStartError(s) = e : e \in Outcomes}

CallFitStart(r) ==
    /\ MayCall(r)
    /\ \E s \in FitStatesOf(r) \cap FitCases : fit_start(r, s)
    /\ Idle

CallEpochStart(r) == MayCall(r) /\ epoch_start(r) /\ Idle

CallEpochEnd(r) == MayCall(r) /\ epoch_end(r) /\ Idle

CallEvalStart(r) == MayCall(r) /\ eval_start(r) /\ Idle

CallEvalEnd(r) ==
    /\ MayCall(r)
    /\ \E lookup \in LookupsOf(r), m \in AccuraciesOf(r) :
         eval_end(r, lookup, m)
    /\ Idle

CallClose(r) == MayCall(r) /\ close(r) /\ Idle

InitExists(r) == init_exists(r) /\ Idle

InitOpen(r) == init_open(r) /\ Idle

InitLog(r) == (\E cmdOk \in BOOLEAN : init_log(r, cmdOk)) /\ Idle

FitRun(r) == fit_run(r) /\ Idle

Barrier == barrier /\ Idle

Steps ==
    \/ Barrier
    \/ \E r \in Ranks : InitExists(r)
    \/ \E r \in Ranks : InitOpen(r)
    \/ \E r \in Ranks : InitLog(r)
    \/ \E r \in Ranks : FitRun(r)

Next ==
    \/ \E r \in Ranks : CallConstruct(r)
    \/ \E r \in Ranks : CallInit(r)
    \/ \E r \in Ranks : CallFitStart(r)
    \/ \E r \in Ranks : CallEpochStart(r)
    \/ \E r \in Ranks : CallEpochEnd(r)
    \/ \E r \in Ranks : CallEvalStart(r)
    \/ \E r \in Ranks : CallEvalEnd(r)
    \/ \E r \in Ranks : CallClose(r)
    \/ Steps

Spec == Init /\ [][Next]_vars

\* ---------------------------------------- hooks called in trainer order

MayHook(r) == calls[r] < MaxHooks

Called(r, hook) == trainer' = [trainer EXCEPT ![r] = hook]

\* the last hook returned normally
Returned(r) == exc[r] = "none" /\ pc[r] = "idle"

\* the trainer is inside its training loop on rank r
Running(r) ==
    /\ trainer[r] \in {"fit_start", "epoch_start", "epoch_end", "eval_start",
                       "eval_end"}
    /\ Returned(r)

TrainerConstruct(r) ==
    /\ trainer[r] = "none"
    /\ Construct(r)
    /\ Called(r, "__init__")
    /\ UNCHANGED << inEpoch, inEval >>

TrainerInit(r) ==
    /\ MayHook(r) /\ trainer[r] = "__init__" /\ Returned(r)
    /\ init(r)
    /\ Called(r, "init")
    /\ UNCHANGED << inEpoch, inEval >>

TrainerFitStart(r) ==
    /\ MayHook(r) /\ trainer[r] = "init" /\ Returned(r)
    /\ \E s \in FitStatesOf(r) : fit_start(r, s)
    /\ Called(r, "fit_start")
    /\ UNCHANGED << inEpoch, inEval >>

TrainerEpochStart(r) ==
    /\ MayHook(r) /\ Running(r) /\ ~inEpoch[r] /\ ~inEval[r]
    /\ epoch_start(r)
    /\ Called(r, "epoch_start")
    /\ inEpoch' = [inEpoch EXCEPT ![r] = TRUE]
    /\ UNCHANGED inEval

TrainerEpochEnd(r) ==
    /\ MayHook(r) /\ Running(r) /\ inEpoch[r] /\ ~inEval[r]
    /\ epoch_end(r)
    /\ Called(r, "epoch_end")
    /\ inEpoch' = [inEpoch EXCEPT ![r] = FALSE]
    /\ UNCHANGED inEval

TrainerEvalStart(r) ==
    /\ MayHook(r) /\ Running(r) /\ ~inEval[r]
    /\ eval_start(r)
    /\ Called(r, "eval_start")
    /\ inEval' = [inEval EXCEPT ![r] = TRUE]
    /\ UNCHANGED inEpoch

TrainerEvalEnd(r) ==
    /\ MayHook(r) /\ Running(r) /\ inEval[r]
    /\ \E lookup \in LookupsOf(r), m \in AccuraciesOf(r) :
         eval_end(r, lookup, m)
    /\ Called(r, "eval_end")
    /\ inEval' = [inEval EXCEPT ![r] = FALSE]
    /\ UNCHANGED inEpoch

\* the engine closes the callbacks when the run ends or fails
TrainerClose(r) ==
    /\ trainer[r] \notin {"none", "__init__", "close"}
    /\ close(r)
    /\ Called(r, "close")
    /\ UNCHANGED << inEpoch, inEval >>

NextTrainer ==
    \/ \E r \in Ranks : TrainerConstruct(r)
    \/ \E r \in Ranks : TrainerInit(r)
    \/ \E r \in Ranks : TrainerFitStart(r)
    \/ \E r \in Ranks : TrainerEpochStart(r)
    \/ \E r \in Ranks : TrainerEpochEnd(r)
    \/ \E r \in Ranks : TrainerEvalStart(r)
    \/ \E r \in Ranks : TrainerEvalEnd(r)
    \/ \E r \in Ranks : TrainerClose(r)
    \/ Steps

SpecTrainer == Init /\ [][NextTrainer]_vars

\* ------------------------------------------------------- observations

IsRankZero(e) == e.rank = 0

IsWritten(e) == e.written

\* the events global rank zero handed to its mllogger, in order
Emitted == SelectSeq(log, IsRankZero)

\* the events written to the results file, in order
File == SelectSeq(log, IsWritten)

Indices(seq, key) == {i \in 1 .. Len(seq) : seq[i].key = key}

\* the evaluations of rank zero that saw a metric above the target
Above(seq) ==
    {i \in Indices(seq, "EVAL_ACCURACY") : seq[i].value > cb[0].target}

\* ----------------------------------------------------------------- C1

RunStopsAtMostOnce == Cardinality(Indices(Emitted, "RUN_STOP")) <= 1

\* C1: over any sequence of hook calls on rank zero RUN_STOP is emitted at
\* most once, and a success flag that is True stays True.
C1_SuccessOnce ==
    [][ /\ RunStopsAtMostOnce'
        /\ \A r \in Ranks : cb[r].success => cb'[r].success ]_vars

\* two evaluations above the target have ended on rank zero
C1_Witness == cb[0].success /\ Cardinality(Above(Emitted)) >= 2

\* ----------------------------------------------------------------- C2

\* C2: on rank zero RUN_STOP follows exactly the first evaluation whose
\* metric is strictly above the target, an evaluation at or below the
\* target emits no RUN_STOP, and the success flag is True exactly when some
\* evaluation saw a metric above the target.
C2_Threshold ==
    LET K == Emitted IN
    /\ \A i \in Indices(K, "EVAL_ACCURACY") :
         /\ i + 1 <= Len(K) /\ K[i + 1].key = "BLOCK_STOP"
         /\ (i + 2 <= Len(K) /\ K[i + 2].key = "RUN_STOP")
              <=> (i \in Above(K) /\ \A j \in Above(K) : i <= j)
    /\ \A i \in Indices(K, "RUN_STOP") :
         i > 2 /\ K[i - 2].key = "EVAL_ACCURACY"
    /\ cb[0].success <=> Above(K) # {}

\* an evaluation at the target emitted no RUN_STOP, a later one above did
C2_Witness ==
    LET K == Emitted IN
    \E i, j \in Indices(K, "EVAL_ACCURACY") :
        /\ i < j
        /\ K[i].value = cb[0].target
        /\ j \in Above(K)
        /\ K[j + 2].key = "RUN_STOP"

\* ----------------------------------------------------------------- C3

Supported(b, d, st) == b \in BENCHMARKS /\ d \in DIVISIONS /\ st \in STATUS

\* what C3 says of one constructor call on rank r
ConstructorContract(r, b, d, st) ==
    IF Supported(b, d, st)
    THEN /\ exc'[r] = "none"
         /\ cb'[r].built
         /\ ~cb'[r].success
         /\ cb'[r].file_handler = "None"
    ELSE /\ exc'[r] = "ValueError"
         /\ cb'[r] = Unbuilt

\* C3 as stated: the constructor raises ValueError, setting nothing, whenever
\* an argument is unsupported, and completes with success False and no file
\* handler whenever all three are supported.
C3_Original ==
    [][ \A r \in {q \in Ranks : ~cb[q].built},
           b \in BenchmarkArgs, d \in DivisionArgs,
           st \in StatusArgs, t \in Targets, cmd \in BOOLEAN :
          __init__(r, b, d, st, t, cmd) => ConstructorContract(r, b, d, st)
      ]_vars

\* C3, amended: the same when the mlperf logging library was imported;
\* when it was not, the constructor raises ImportError, setting nothing,
\* whatever the arguments.
C3_Constructor ==
    [][ \A r \in {q \in Ranks : ~cb[q].built},
           b \in BenchmarkArgs, d \in DivisionArgs,
           st \in StatusArgs, t \in Targets, cmd \in BOOLEAN :
          __init__(r, b, d, st, t, cmd) =>
             IF mlperf_available
             THEN ConstructorContract(r, b, d, st)
             ELSE exc'[r] = "ImportError" /\ cb'[r] = Unbuilt
      ]_vars

\* with the library imported, one rank's constructor raised ValueError and
\* the other rank's constructor completed
C3_Witness ==
    /\ mlperf_available
    /\ exc[0] = "ValueError" /\ cb[0] = Unbuilt
    /\ cb[1].built /\ calls[1] = 0

\* ----------------------------------------------------------------- C4

InitOnlyKeys ==
    {"CACHE_CLEAR", "INIT_START"} \cup {SubmissionKeys[i] : i \in 1 .. 5}

\* C4: an init that finds the results file raises FileExistsError and does
\* nothing else on that rank: no handler, no cache clear, no event; a
\* results file, once there, stays, and one that was there before the run
\* is never written to.
C4_ExistingFile ==
    [][ /\ fs.results => fs'.results
        /\ \A r \in Ranks :
             (pc[r] = "init_exists" /\ pc'[r] # pc[r] /\ fs.results) =>
                /\ exc'[r] = "FileExistsError"
                /\ pc'[r] = "idle"
                /\ cb' = cb /\ attached' = attached /\ log' = log
                /\ cacheCleared' = cacheCleared /\ fs' = fs
        /\ fs.preexisting =>
             /\ File' = << >>
             /\ \A r \in Ranks :
                  /\ cb'[r].file_handler = "None"
                  /\ ~attached'[r]
                  /\ ~cacheCleared'[r]
             /\ \A i \in 1 .. Len(log') : log'[i].key \notin InitOnlyKeys
      ]_vars

\* init has raised FileExistsError on rank zero for a file that was there
\* before the run, with a cache clear command given
C4_Witness ==
    /\ fs.preexisting
    /\ exc[0] = "FileExistsError"
    /\ cb[0].cache_clear_cmd

\* ----------------------------------------------------------------- C5

OneEvaluatorError ==
    "ValueError: Only one evaluator is supported for the MLPerfCallback."

\* C5 as stated: on rank zero a fit_start whose state has more than one
\* evaluator raises the single-evaluator ValueError, whatever else the
\* state holds.
C5_Original ==
    [][ \A s \in FitStates :
          (s.evaluators > 1 /\ fit_start(0, s)) => exc'[0] = OneEvaluatorError
      ]_vars

\* C5, amended: it raises the single-evaluator ValueError when the three
\* checks before it pass (torch train dataloader, torch eval dataloader,
\* batch size set), whatever the sized-ness of the datasets; otherwise it
\* raises the error of the first of those checks that fails.
C5_SingleEvaluator ==
    [][ \A s \in FitStates :
          (s.evaluators > 1 /\ fit_start(0, s)) =>
             exc'[0] =
               IF ~s.train_is_dataloader
               THEN "TypeError: train dataloader must be a torch dataloader"
               ELSE IF ~s.eval_is_dataloader
               THEN "TypeError: eval dataset must be a torch dataloader."
               ELSE IF s.batch_size_none
               THEN "ValueError: Batch size is required to be set for dataloader."
               ELSE OneEvaluatorError
      ]_vars

\* fit_start has raised the single-evaluator error on rank zero
C5_Witness == exc[0] = OneEvaluatorError /\ validated[0]

\* ----------------------------------------------------------------- C7

\* C7: a rank other than zero emits only CACHE_CLEAR (with a command
\* given), INIT_START and INIT_STOP, runs no fit_start validation, uploads
\* no artifact and keeps success False.
C7_RankZeroGating ==
    /\ \A i \in 1 .. Len(log) :
         log[i].rank # 0 =>
            /\ log[i].key \in {"CACHE_CLEAR", "INIT_START", "INIT_STOP"}
            /\ log[i].key = "CACHE_CLEAR" => cb[log[i].rank].cache_clear_cmd
    /\ \A r \in Ranks \ {0} :
         /\ ~validated[r]
         /\ artifacts[r] = {}
         /\ ~cb[r].success

\* rank one has run init and fit_start
C7_Witness ==
    /\ \E i \in 1 .. Len(log) : log[i].rank = 1 /\ log[i].key = "INIT_START"
    /\ \E i \in 1 .. Len(log) : log[i].rank = 1 /\ log[i].key = "INIT_STOP"
    /\ calls[1] = 2 /\ pc[1] = "idle"

\* ---------------------------------------------------------------- C10

FitStartErrors ==
    { "TypeError: train dataloader must be a torch dataloader",
      "TypeError: eval dataset must be a torch dataloader.",
      "ValueError: Batch size is required to be set for dataloader.",
      OneEvaluatorError,
      "TypeError: Train dataset must have __len__ property",
      "TypeError: The eval dataset must have __len__ property" }

MissingMetricError == "ValueError: Accuracy must be a validation metric."

\* C10: a fit_start call that raises a validation error and an eval_end
\* call that raises for a missing metric emit no event and leave the
\* success flag and the file handler as they were.
C10_ValidationEmitsNothing ==
    [][ \A r \in Ranks :
          ( /\ calls'[r] = calls[r] + 1
            /\ exc'[r] \in FitStartErrors \cup {MissingMetricError} ) =>
             /\ log' = log
             /\ cb' = cb
             /\ attached' = attached
      ]_vars

\* with its file handler attached, rank zero has had eval_end raise for a
\* missing metric
C10_Witness ==
    /\ exc[0] = MissingMetricError
    /\ attached[0]
    /\ calls[0] = 2

\* ----------------------------------------------------------------- C6

Expected ==
    << "INIT_START" >> \o SubmissionKeys \o RunParamKeys
       \o << "INIT_STOP", "RUN_START" >>

LoopKeys ==
    { "EPOCH_START", "BLOCK_START", "EPOCH_STOP", "EVAL_START", "EVAL_STOP",
      "EVAL_ACCURACY", "BLOCK_STOP", "RUN_STOP" }

NotCacheClear(e) == e.key # "CACHE_CLEAR"

\* C6: with the hooks called in trainer order, rank zero emits INIT_START,
\* the five submission events, the five run-parameter events, INIT_STOP
\* and RUN_START in this order, and epoch, eval, block and RUN_STOP events
\* only after them.
C6_EventOrder ==
    LET K == SelectSeq(Emitted, NotCacheClear) IN
    \A i \in 1 .. Len(K) :
        IF i <= Len(Expected) THEN K[i].key = Expected[i]
        ELSE K[i].key \in LoopKeys

\* rank zero has run init with a cache clear, fit_start and an evaluation
\* that ended the run
C6_Witness ==
    /\ Indices(Emitted, "CACHE_CLEAR") # {}
    /\ Indices(Emitted, "RUN_START") # {}
    /\ Indices(Emitted, "RUN_STOP") # {}

\* ----------------------------------------------------------------- C8

\* C8: when the results file was not there before the run, no rank's init
\* raises FileExistsError and every rank ends init with a file handler.
C8_RaceFree ==
    ~fs.preexisting =>
       \A r \in Ranks :
          /\ exc[r] # "FileExistsError"
          /\ (trainer[r] = "init" /\ pc[r] = "idle") =>
                cb[r].file_handler # "None"

\* ----------------------------------------------------------------- C9

Last(seq) == seq[Len(seq)]

\* C9: with the hooks called in trainer order, the file handler of rank
\* zero stays attached from init until the eval_end that emits RUN_STOP,
\* which removes it; RUN_STOP is the last event in the results file; and
\* as long as no evaluation was above the target the handler stays
\* attached and the file holds no RUN_STOP.
C9_SealedByRunStop ==
    [][ /\ (attached[0] /\ ~attached'[0]) =>
             /\ Len(log') = Len(log) + 4
             /\ Last(log') = [rank |-> 0, key |-> "RUN_STOP", value |-> -1,
                              written |-> TRUE]
        /\ (~attached[0] /\ attached'[0]) => pc[0] = "init_open"
        /\ \A i \in Indices(File', "RUN_STOP") : i = Len(File')
        /\ ~cb'[0].success =>
             /\ Indices(File', "RUN_STOP") = {}
             /\ cb'[0].file_handler # "None" => attached'[0]
        /\ cb'[0].success => ~attached'[0]
      ]_vars

\* RUN_STOP is in the results file and rank zero has emitted a later event
C9_Witness ==
    /\ Indices(File, "RUN_STOP") # {}
    /\ Last(Emitted).key \in {"EPOCH_STOP", "EVAL_START"}
    /\ ~Last(Emitted).written

====
